---- MODULE Spec2Model ----
(***************************************************************************)
(* Model of Task3/game.py: a two-party dice game with a commit-reveal      *)
(* (HMAC) protocol for the first-chooser decision and for every throw.     *)
(*                                                                         *)
(* Die objects live in a heap (dice): an object is its index, its value    *)
(* is its face sequence.  Lists of dice are sequences of object indices,   *)
(* so that removal by equality (list.remove with Die.__eq__) and object    *)
(* identity can be told apart.  Input lines are sequences of characters.   *)
(***************************************************************************)
EXTENDS Integers, Sequences, FiniteSets, TLC

(* ------------------------------ bounds --------------------------------- *)
MaxDice    == 3      \* most dice given on the command line
MaxRejects == 2      \* most rejected lines at one prompt
MaxLineLen == 2      \* longest input line, in characters
NumKeys    == 2      \* distinct values of the 16-byte key that are drawn
MaxDraw    == 7      \* largest value of the 4-byte draw that is tried

MinDice == 3         \* game.py:82

None == -1           \* Python None for integer-valued fields
NoHmac == <<>>       \* no digest

(* --------------------------- input domains ----------------------------- *)
\* face sequences given on the command line; <<>> is a die with no faces
DiceCatalogue == { <<>>, <<5>>, <<2, 5>>, <<2, 2, 4, 4, 9, 9>> }

RECURSIVE SeqsUpTo(_, _)
SeqsUpTo(S, n) ==
    IF n = 0 THEN { <<>> }
    ELSE LET shorter == SeqsUpTo(S, n - 1)
         IN  shorter \cup { Append(s, x) : s \in { t \in shorter : Len(t) = n - 1 }, x \in S }

DiceInputs == { s \in SeqsUpTo(DiceCatalogue, MaxDice) : Len(s) >= MinDice - 1 }

\* characters of an input line: ASCII digits, blank, minus, a letter and
\* SUPERSCRIPT TWO (a character for which str.isdigit() is true and int() fails)
AsciiDigits == { "0", "1", "3" }
Chars == AsciiDigits \cup { " ", "-", "a", "sup2" }
Lines == SeqsUpTo(Chars, MaxLineLen)
Keys == 1 .. NumKeys

\* the values of int.from_bytes(os.urandom(4), 'big') that are tried
Draws == 0 .. MaxDraw

(* ------------------------- string primitives --------------------------- *)
RECURSIVE lstrip(_)
lstrip(s) == IF s # <<>> /\ Head(s) = " " THEN lstrip(Tail(s)) ELSE s

RECURSIVE rstrip(_)
rstrip(s) == IF s # <<>> /\ s[Len(s)] = " " THEN rstrip(SubSeq(s, 1, Len(s) - 1)) ELSE s

strip(s) == rstrip(lstrip(s))

\* the values input(...).strip() can return
Choices == { strip(l) : l \in Lines }

\* str.isdigit(): non-empty and every character has the Unicode digit property
isdigit(s) == s # <<>> /\ \A i \in 1 .. Len(s) : s[i] \in AsciiDigits \cup { "sup2" }

DigitVal(c) == CASE c = "0" -> 0 [] c = "1" -> 1 [] c = "3" -> 3

\* int(s) raises ValueError unless s is a decimal literal
IntRaises(s) == s = <<>> \/ \E i \in 1 .. Len(s) : s[i] \notin AsciiDigits

RECURSIVE IntVal(_)
IntVal(s) == IF Len(s) = 1 THEN DigitVal(s[1])
             ELSE 10 * IntVal(SubSeq(s, 1, Len(s) - 1)) + DigitVal(s[Len(s)])

DigitChar(d) == CASE d = 0 -> "0" [] d = 1 -> "1" [] d = 2 -> "2" [] d = 3 -> "3"
                  [] d = 4 -> "4" [] d = 5 -> "5" [] d = 6 -> "6" [] d = 7 -> "7"
                  [] d = 8 -> "8" [] d = 9 -> "9"

\* str(number) for a non-negative integer
RECURSIVE Str(_)
Str(n) == IF n < 10 THEN << DigitChar(n) >> ELSE Append(Str(n \div 10), DigitChar(n % 10))

(* ------------------------------ crypto --------------------------------- *)
\* hmac.new(key, msg, sha256).hexdigest(): an ideal keyed hash, i.e. one
\* that is injective in (key, msg)
HMAC(k, msg) == << k, msg >>

uniform_of_wide(draw, max_value) == draw % (max_value + 2)

\* line 12: the draw reduced modulo max_value + 1
uniform_of(draw, max_value) == draw % (max_value + 1)

\* the values generate_uniform_random(max_value) can return; the empty set
\* stands for the ValueError raised on a negative bound
generate_uniform_random(max_value) ==
    IF max_value < 0 THEN {} ELSE { uniform_of(draw, max_value) : draw \in Draws }

generate_fair_number_wrongmsg(max_value) ==
    { << n, k, HMAC(k, Str(n + 1)) >> : n \in generate_uniform_random(max_value), k \in Keys }

\* the triples (number, key, hmac_value) generate_fair_number can return
generate_fair_number(max_value) ==
    { << n, k, HMAC(k, Str(n)) >> : n \in generate_uniform_random(max_value), k \in Keys }

(* ------------------------------- state --------------------------------- *)
VARIABLES
    pc,             \* position of the program
    dice_values,    \* argument of GameController(dice_values)
    dice,           \* heap of Die objects: dice[i] is the face sequence of object i
    original_dice,  \* GameState.original_dice (object indices)
    available_dice, \* GameState.available_dice (object indices)
    player_die,     \* GameState.player_die (object index or None)
    computer_die,   \* GameState.computer_die (object index or None)
    computer_num,   \* local of the running sub-protocol: committed value
    key,            \* local of the running sub-protocol: key (0: none)
    hmac_value,     \* local of the running sub-protocol: digest
    player_first,   \* start_game: result of _determine_first_player
    player_guess,   \* _determine_first_player: accepted guess (a local, dropped at the next call)
    player_score,   \* start_game: score of the player's throw
    computer_score, \* start_game: score of the computer's throw
    log,            \* transcript of the latest sub-protocol, one tag per event
    out_hmac,       \* digest printed in the latest sub-protocol
    out_reveal,     \* << number, key >> printed at reveal, or << >>
    out_result,     \* << player_num, computer_num, result, n >> printed by a throw, or << >>
    out_table,      \* probability table printed by start_game: out_table[i][j], or << >>
    commits,        \* number of generate_fair_number calls so far
    reads,          \* number of input lines accepted so far
    outcome,        \* message printed at game end
    err,            \* exception that ended the program, or "none"
    call            \* a method called on its own: << name, argument, ... >>

gameState == << original_dice, available_dice, player_die, computer_die >>
locals == << computer_num, key, hmac_value >>
outs == << out_hmac, out_reveal, out_result >>
results == << player_first, player_guess, player_score, computer_score, outcome >>
vars == << pc, dice_values, dice, gameState, locals, results, log, outs, out_table, commits, reads,
           err, call >>

Init ==
    /\ pc = "new"
    /\ dice_values \in DiceInputs
    /\ dice = <<>>
    /\ original_dice = <<>>
    /\ available_dice = <<>>
    /\ player_die = None
    /\ computer_die = None
    /\ computer_num = None
    /\ key = 0
    /\ hmac_value = NoHmac
    /\ player_first = FALSE
    /\ player_guess = None
    /\ player_score = None
    /\ computer_score = None
    /\ log = <<>>
    /\ out_hmac = NoHmac
    /\ out_reveal = <<>>
    /\ out_result = <<>>
    /\ out_table = <<>>
    /\ commits = 0
    /\ reads = 0
    /\ outcome = "none"
    /\ err = "none"
    /\ call = << "none", <<>> >>

(* ------------------------------ GameState ------------------------------ *)
\* Die.__eq__ on two objects of the heap
DieEq(a, b) == dice[a] = dice[b]

\* die in lst  (membership by ==)
Contains(lst, d) == \E i \in 1 .. Len(lst) : DieEq(lst[i], d)

\* lst.index(d): position of the first element equal to d
FirstIndex(lst, d) == CHOOSE i \in 1 .. Len(lst) :
                          DieEq(lst[i], d) /\ \A j \in 1 .. i - 1 : ~ DieEq(lst[j], d)

RemoveAt(lst, i) == SubSeq(lst, 1, i - 1) \o SubSeq(lst, i + 1, Len(lst))

select_die_noremove(avail, d) == avail

select_die_all_equal(avail, d) == SelectSeq(avail, LAMBDA x : ~ DieEq(x, d))

\* GameState.select_die: the value of available_dice after the call
select_die(avail, d) ==
    IF Contains(avail, d) THEN RemoveAt(avail, FirstIndex(avail, d)) ELSE avail

(* ---------------------------- construction ----------------------------- *)
too_few_lax(values_list) == Len(values_list) < MinDice - 1

\* line 82: len(dice_values) < 3
too_few(values_list) == Len(values_list) < MinDice

\* Die.__init__, line 26: not values
no_faces(values) == values = <<>>

\* GameController.__init__
Construct ==
    /\ pc = "new"
    /\ IF too_few(dice_values)
       THEN /\ pc' = "error"
            /\ err' = "ValueError: At least three dice must be provided"
            /\ UNCHANGED << dice, gameState >>
       ELSE IF \E i \in 1 .. Len(dice_values) : no_faces(dice_values[i])
       THEN /\ pc' = "error"
            /\ err' = "ValueError: Die must have at least one face"
            /\ UNCHANGED << dice, gameState >>
       ELSE /\ pc' = "start"
            /\ dice' = dice_values
            /\ original_dice' = [ i \in 1 .. Len(dice_values) |-> i ]
            /\ available_dice' = [ i \in 1 .. Len(dice_values) |-> i ]
            /\ UNCHANGED << player_die, computer_die, err >>
    /\ UNCHANGED << dice_values, out_table, reads, locals, results, log, outs, commits, call >>

(* ------------------------------ start_game ----------------------------- *)
Rejects(l) == Cardinality({ i \in 1 .. Len(l) : l[i] = "reject" })

(* ---------------------------- TableGenerator --------------------------- *)
Wins_or_equal(die1, die2) ==
    Cardinality({ p \in (1 .. Len(die1)) \X (1 .. Len(die2)) : die1[p[1]] >= die2[p[2]] })

\* line 60: sum(1 for x in die1 for y in die2 if x > y)
Wins(die1, die2) ==
    Cardinality({ p \in (1 .. Len(die1)) \X (1 .. Len(die2)) : die1[p[1]] > die2[p[2]] })

\* line 61
Total(die1, die2) == Len(die1) * Len(die2)

\* the ':.2f' conversion of w / t: hundredths, rounded to nearest; an exact
\* half is rounded to even, as the conversion does for a binary fraction
Hundredths(w, t) ==
    LET q == (100 * w) \div t
        r == (100 * w) % t
    IN  IF 2 * r > t THEN q + 1
        ELSE IF 2 * r < t THEN q
        ELSE IF q % 2 = 0 THEN q ELSE q + 1

\* the characters of a number of hundredths printed with two decimals
Fmt2(h) == Str(h \div 100) \o << ".", DigitChar((h \div 10) % 10), DigitChar(h % 10) >>

\* TableGenerator._calculate_probability
calculate_probability(die1, die2) == Fmt2(Hundredths(Wins(die1, die2), Total(die1, die2)))

generate_table_computed(lst) ==
    [ i \in 1 .. Len(lst) |-> [ j \in 1 .. Len(lst) |->
        calculate_probability(dice[lst[i]], dice[lst[j]]) ] ]

\* TableGenerator.generate_table: the rows printed, without their labels
generate_table(lst) ==
    [ i \in 1 .. Len(lst) |-> [ j \in 1 .. Len(lst) |->
        IF i = j THEN << "0", ".", "5", "0" >>
        ELSE calculate_probability(dice[lst[i]], dice[lst[j]]) ] ]

\* start_game, lines 90-93: the banner and the probability table
StartGame ==
    /\ pc = "start"
    /\ out_table' = generate_table(original_dice)
    /\ pc' = "determine"
    /\ UNCHANGED << dice_values, reads, dice, gameState, locals, results, log, outs, commits, err,
                    call >>

(* ----------------------- _determine_first_player ----------------------- *)
DetermineCommit_reveal_early ==
    /\ pc = "determine"
    /\ \E t \in generate_fair_number(1) :
          /\ computer_num' = t[1]
          /\ key' = t[2]
          /\ hmac_value' = t[3]
          /\ out_hmac' = t[3]
          /\ out_reveal' = << t[1], t[2] >>
    /\ log' = << "hmac", "reveal" >>
    /\ out_result' = <<>>
    /\ commits' = commits + 1
    /\ pc' = "guess"
    /\ UNCHANGED << dice_values, out_table, reads, dice, gameState, results, err, call >>

\* lines 123-125: commit to a bit and print its digest
DetermineCommit ==
    /\ pc = "determine"
    /\ \E t \in generate_fair_number(1) :
          /\ computer_num' = t[1]
          /\ key' = t[2]
          /\ hmac_value' = t[3]
          /\ out_hmac' = t[3]
    /\ log' = << "hmac" >>
    /\ out_reveal' = <<>>
    /\ out_result' = <<>>
    /\ commits' = commits + 1
    /\ pc' = "guess"
    /\ UNCHANGED << dice_values, out_table, reads, dice, gameState, results, err, call >>

\* line 129: choice not in ('0', '1')
guess_rejected(choice) == choice \notin { << "0" >>, << "1" >> }

first_player_always(guess, number) == TRUE

\* line 134: player_guess == computer_num
first_player(guess, number) == guess = number

\* the lines the guess prompt rejects and accepts
RejectedGuesses == { choice \in Choices : guess_rejected(choice) }
AcceptedGuesses == { choice \in Choices : ~ guess_rejected(choice) }

\* lines 128-131: a line that is not a guess is rejected and the prompt repeated
GuessReject ==
    /\ pc = "guess"
    /\ Rejects(log) < MaxRejects
    /\ RejectedGuesses # {}
    /\ log' = Append(log, "reject")
    /\ UNCHANGED << pc, dice_values, out_table, reads, dice, gameState, locals, results, outs,
                    commits, err, call >>

\* lines 128-134: a guess is accepted, the bit and the key are revealed
GuessAccept ==
    /\ pc = "guess"
    /\ \E choice \in AcceptedGuesses : player_guess' = IntVal(choice)
    /\ out_reveal' = << computer_num, key >>
    /\ log' = log \o << "accept", "reveal" >>
    /\ player_first' = first_player(player_guess', computer_num)
    /\ computer_num' = None
    /\ key' = 0
    /\ hmac_value' = NoHmac
    /\ pc' = "first_pick"
    /\ reads' = reads + 1
    /\ UNCHANGED << dice_values, out_table, dice, gameState, player_score, computer_score, outcome,
                    out_hmac, out_result, commits, err, call >>

(* ----------------------------- die selection --------------------------- *)
\* start_game, lines 96-103: whose call stands at the program position
PlayerPicksAt(p) == (p = "first_pick" /\ player_first) \/ (p = "second_pick" /\ ~ player_first)
ComputerPicksAt(p) == (p = "first_pick" /\ ~ player_first) \/ (p = "second_pick" /\ player_first)
AfterPick(p) == IF p \in { "first_pick", "first_input" } THEN "second_pick" ELSE "roll_player"

\* _computer_select_die with the assignment of its result (lines 99, 102)
ComputerSelectDie ==
    /\ ComputerPicksAt(pc)
    /\ IF available_dice = <<>>
       THEN /\ pc' = "error"
            /\ err' = "ValueError: No dice available for selection"
            /\ UNCHANGED << available_dice, computer_die >>
       ELSE IF generate_uniform_random(Len(available_dice) - 1) = {}
       THEN /\ pc' = "error"
            /\ err' = "ValueError: max_value must be non-negative"
            /\ UNCHANGED << available_dice, computer_die >>
       ELSE \E computer_choice \in generate_uniform_random(Len(available_dice) - 1) :
               LET selected_die == available_dice[computer_choice + 1]
               IN  /\ available_dice' = select_die(available_dice, selected_die)
                   /\ computer_die' = selected_die
                   /\ pc' = AfterPick(pc)
                   /\ err' = err
    /\ player_guess' = None
    /\ UNCHANGED << dice_values, out_table, reads, dice, original_dice, player_die, locals, player_first,
                    player_score, computer_score, outcome, log, outs, commits, call >>

\* _player_select_die, lines 147-150: the pool is listed
PlayerSelectPrompt ==
    /\ PlayerPicksAt(pc)
    /\ pc' = IF pc = "first_pick" THEN "first_input" ELSE "second_input"
    /\ log' = << "prompt" >>
    /\ out_hmac' = NoHmac
    /\ out_reveal' = <<>>
    /\ out_result' = <<>>
    /\ player_guess' = None
    /\ UNCHANGED << dice_values, out_table, reads, dice, gameState, locals, player_first, player_score,
                    computer_score, outcome, commits, err, call >>

\* lines 154 and 171: not choice.isdigit() or int(choice) >= n
index_check(choice, n) ==
    IF ~ isdigit(choice) THEN "reject"
    ELSE IF IntRaises(choice) THEN "raise"
    ELSE IF IntVal(choice) >= n THEN "reject"
    ELSE "accept"

\* the lines an index prompt over n entries rejects, fails on and accepts
MaxOf(S) == CHOOSE x \in S : \A y \in S : y <= x
Sizes == 0 .. MaxOf({ MaxDice } \cup { Len(d) : d \in DiceCatalogue })
Verdicts == { "reject", "raise", "accept" }
ChoicesBy == [ n \in Sizes |-> [ v \in Verdicts |-> { choice \in Choices : index_check(choice, n) = v } ] ]

\* lines 153-156
PlayerSelectReject ==
    /\ pc \in { "first_input", "second_input" }
    /\ Rejects(log) < MaxRejects
    /\ ChoicesBy[Len(available_dice)]["reject"] # {}
    /\ log' = Append(log, "reject")
    /\ UNCHANGED << pc, dice_values, out_table, reads, dice, gameState, locals, results, outs,
                    commits, err, call >>

\* line 154: int(choice) raises ValueError, which leaves start_game
PlayerSelectRaise ==
    /\ pc \in { "first_input", "second_input" }
    /\ ChoicesBy[Len(available_dice)]["raise"] # {}
    /\ pc' = "error"
    /\ err' = "ValueError: invalid literal for int()"
    /\ log' = Append(log, "raise")
    /\ UNCHANGED << dice_values, out_table, reads, dice, gameState, locals, results, outs,
                    commits, call >>

\* lines 153-159 with the assignment of the result (lines 98, 103)
PlayerSelectAccept ==
    /\ pc \in { "first_input", "second_input" }
    /\ \E choice \in ChoicesBy[Len(available_dice)]["accept"] :
          LET selected_die == available_dice[IntVal(choice) + 1]
          IN  /\ available_dice' = select_die(available_dice, selected_die)
              /\ player_die' = selected_die
    /\ log' = Append(log, "accept")
    /\ pc' = AfterPick(pc)
    /\ reads' = reads + 1
    /\ UNCHANGED << dice_values, out_table, dice, original_dice, computer_die, locals, results, outs,
                    commits, err, call >>

(* ------------------------------ _make_throw ---------------------------- *)
ThrownDie_swapped(p) ==
    IF p \in { "roll_player", "contrib_player" } THEN computer_die ELSE player_die

\* start_game, lines 109-110: the die handed to _make_throw at the position
ThrownDie(p) == IF p \in { "roll_player", "contrib_player" } THEN player_die ELSE computer_die

\* lines 162-167: commit to a value in 0 .. len(die) - 1 and print its digest
ThrowCommit ==
    /\ pc \in { "roll_player", "roll_computer" }
    /\ LET n == Len(dice[ThrownDie(pc)])
       IN  IF generate_fair_number(n - 1) = {}
           THEN /\ pc' = "error"
                /\ err' = "ValueError: max_value must be non-negative"
                /\ UNCHANGED << locals, log, outs, commits >>
           ELSE /\ \E t \in generate_fair_number(n - 1) :
                      /\ computer_num' = t[1]
                      /\ key' = t[2]
                      /\ hmac_value' = t[3]
                      /\ out_hmac' = t[3]
                /\ log' = << "hmac" >>
                /\ out_reveal' = <<>>
                /\ out_result' = <<>>
                /\ commits' = commits + 1
                /\ pc' = IF pc = "roll_player" THEN "contrib_player" ELSE "contrib_computer"
                /\ err' = err
    /\ UNCHANGED << dice_values, out_table, reads, dice, gameState, results, call >>

ThrowReject_recommit ==
    /\ pc \in { "contrib_player", "contrib_computer" }
    /\ Rejects(log) < MaxRejects
    /\ ChoicesBy[Len(dice[ThrownDie(pc)])]["reject"] # {}
    /\ \E t \in generate_fair_number(Len(dice[ThrownDie(pc)]) - 1) :
          /\ computer_num' = t[1]
          /\ key' = t[2]
          /\ hmac_value' = t[3]
    /\ log' = Append(log, "reject")
    /\ UNCHANGED << pc, dice_values, out_table, reads, dice, gameState, results, outs, commits,
                    err, call >>

\* lines 170-173
ThrowReject ==
    /\ pc \in { "contrib_player", "contrib_computer" }
    /\ Rejects(log) < MaxRejects
    /\ ChoicesBy[Len(dice[ThrownDie(pc)])]["reject"] # {}
    /\ log' = Append(log, "reject")
    /\ UNCHANGED << pc, dice_values, out_table, reads, dice, gameState, locals, results, outs,
                    commits, err, call >>

\* line 171: int(choice) raises ValueError, which leaves start_game
ThrowRaise ==
    /\ pc \in { "contrib_player", "contrib_computer" }
    /\ ChoicesBy[Len(dice[ThrownDie(pc)])]["raise"] # {}
    /\ pc' = "error"
    /\ err' = "ValueError: invalid literal for int()"
    /\ log' = Append(log, "raise")
    /\ computer_num' = None
    /\ key' = 0
    /\ hmac_value' = NoHmac
    /\ UNCHANGED << dice_values, out_table, reads, dice, gameState, results, outs, commits, call >>

throw_result_nomod(player_num, number, n) == player_num + number

throw_result_product(player_num, number, n) == (player_num * number) % n

\* line 175: result = (player_num + computer_num) % len(die)
throw_result(player_num, number, n) == (player_num + number) % n

FaceAt_index(d, i) == IF i < Len(dice[d]) THEN i ELSE None

\* line 178 for an index outside the die: IndexError (negative indices do not occur)
FaceAt(d, i) == IF i < Len(dice[d]) THEN dice[d][i + 1] ELSE None

\* lines 170-178 with the assignment of the score (lines 109, 110)
ThrowAccept ==
    /\ pc \in { "contrib_player", "contrib_computer" }
    /\ \E choice \in ChoicesBy[Len(dice[ThrownDie(pc)])]["accept"] :
          LET die == ThrownDie(pc)
              n == Len(dice[die])
              player_num == IntVal(choice)
              result == throw_result(player_num, computer_num, n)
          IN  /\ out_reveal' = << computer_num, key >>
              /\ out_result' = << player_num, computer_num, result, n >>
              /\ IF result >= n
                 THEN /\ pc' = "error"
                      /\ err' = "IndexError: list index out of range"
                      /\ UNCHANGED << player_score, computer_score >>
                 ELSE /\ err' = err
                      /\ IF pc = "contrib_player"
                         THEN /\ player_score' = FaceAt(die, result)
                              /\ computer_score' = computer_score
                              /\ pc' = "roll_computer"
                         ELSE /\ computer_score' = FaceAt(die, result)
                              /\ player_score' = player_score
                              /\ pc' = "scores"
    /\ log' = log \o << "accept", "reveal" >>
    /\ computer_num' = None
    /\ key' = 0
    /\ hmac_value' = NoHmac
    /\ reads' = reads + 1
    /\ UNCHANGED << dice_values, out_table, dice, gameState, player_first, player_guess, outcome,
                    out_hmac, commits, call >>

game_outcome_tie_wins(score, other) ==
    IF score >= other THEN "win"
    ELSE IF score < other THEN "lose"
    ELSE "tie"

\* lines 115-120: the message chosen from the two scores
game_outcome(score, other) ==
    IF score > other THEN "win"
    ELSE IF score < other THEN "lose"
    ELSE "tie"

\* start_game, lines 112-120
Report ==
    /\ pc = "scores"
    /\ outcome' = game_outcome(player_score, computer_score)
    /\ pc' = "done"
    /\ UNCHANGED << dice_values, out_table, reads, dice, gameState, locals, player_first, player_guess,
                    player_score, computer_score, log, outs, commits, err, call >>

(* ----------------------- GameState used on its own --------------------- *)
Dies == 1 .. Len(dice)

reset_keep(orig, avail) == avail

\* GameState.reset, line 76: the value of available_dice after the call
reset(orig, avail) == orig

\* state.select_die(d) for a die d of the set
ApiSelectDie ==
    /\ pc = "start"
    /\ \E d \in Dies : available_dice' = select_die(available_dice, d)
    /\ call' = << "select_die", available_dice >>
    /\ UNCHANGED << pc, dice_values, out_table, reads, dice, original_dice, player_die, computer_die, locals,
                    results, log, outs, commits, err >>

\* state.player_die = d, state.computer_die = d
ApiAssign ==
    /\ pc = "start"
    /\ \E d \in Dies :
          \/ player_die' = d /\ computer_die' = computer_die
          \/ computer_die' = d /\ player_die' = player_die
    /\ call' = << "assign", available_dice >>
    /\ UNCHANGED << pc, dice_values, out_table, reads, dice, original_dice, available_dice, locals, results, log,
                    outs, commits, err >>

\* state.reset()
ApiReset ==
    /\ pc = "start"
    /\ available_dice' = reset(original_dice, available_dice)
    /\ player_die' = None
    /\ computer_die' = None
    /\ call' = << "reset", available_dice >>
    /\ UNCHANGED << pc, dice_values, out_table, reads, dice, original_dice, locals, results, log, outs, commits,
                    err >>

NextState ==
    \/ Construct
    \/ ApiSelectDie
    \/ ApiAssign
    \/ ApiReset

SpecState == Init /\ [][NextState]_vars

(* ----------------- generate_uniform_random called on its own ------------ *)
\* the bounds tried, negative ones included
UniformArgs == (0 - MaxDraw) .. MaxDraw

\* crypto_provider.generate_uniform_random(max_value)
ApiUniform ==
    /\ pc = "new"
    /\ \E max_value \in UniformArgs :
          IF generate_uniform_random(max_value) = {}
          THEN call' = << "generate_uniform_random", max_value, "raise", None >>
          ELSE \E r \in generate_uniform_random(max_value) :
                  call' = << "generate_uniform_random", max_value, "return", r >>
    /\ UNCHANGED << pc, dice_values, out_table, reads, dice, gameState, locals, results, log,
                    outs, commits, err >>

NextUniform == ApiUniform

SpecUniform == Init /\ [][NextUniform]_vars

Next ==
    \/ Construct
    \/ StartGame
    \/ DetermineCommit
    \/ GuessReject
    \/ GuessAccept
    \/ ComputerSelectDie
    \/ PlayerSelectPrompt
    \/ PlayerSelectReject
    \/ PlayerSelectRaise
    \/ PlayerSelectAccept
    \/ ThrowCommit
    \/ ThrowReject
    \/ ThrowRaise
    \/ ThrowAccept
    \/ Report

Spec == Init /\ [][Next]_vars

TypeOK ==
    /\ pc \in { "new", "start", "determine", "guess", "first_pick", "first_input",
                "second_pick", "second_input", "roll_player", "contrib_player",
                "roll_computer", "contrib_computer", "scores", "done", "error", "api" }
    /\ Len(log) <= MaxRejects + 3
    /\ commits \in 0 .. 3

(* ------------------------------- claims -------------------------------- *)
PromptPcs == { "guess", "contrib_player", "contrib_computer" }
InputTags == { "reject", "accept", "raise" }
Before(i, tag) == \E j \in 1 .. i - 1 : log[j] = tag

\* C1: in both commit-reveal sub-protocols the digest is disclosed before any
\* input is read, and the value and key are disclosed only after an accepted,
\* valid input: no reveal while only rejected inputs were received.
CommitContributeReveal ==
    /\ \A i \in 1 .. Len(log) :
          /\ (log[i] \in InputTags /\ log[1] # "prompt") => Before(i, "hmac")
          /\ log[i] = "reveal" =>
                \E j \in 1 .. i - 1 : log[j] = "accept" /\ Before(j, "hmac")
    /\ out_reveal # <<>> =>
          /\ \E i \in 1 .. Len(log) : log[i] = "reveal"
          /\ out_hmac # NoHmac
    /\ pc = "first_pick" => player_guess \in { 0, 1 }
    /\ (out_reveal # <<>> /\ out_result # <<>>) => out_result[1] \in 0 .. out_result[4] - 1
    /\ pc \in PromptPcs =>
          /\ out_hmac = hmac_value
          /\ hmac_value # NoHmac
          /\ out_reveal = <<>>
          /\ \A i \in 1 .. Len(log) : log[i] # "accept"

RevealAfterRejectsReached ==
    /\ pc = "roll_computer"
    /\ log = << "hmac", "reject", "reject", "accept", "reveal" >>
    /\ out_reveal # <<>>

\* C2: the keyed hash recomputed from the revealed key and the decimal string
\* of the revealed value equals the digest disclosed at commit time of the round.
CommitmentSoundness ==
    out_reveal # <<>> => HMAC(out_reveal[2], Str(out_reveal[1])) = out_hmac

RevealOfFourReached ==
    /\ out_reveal # <<>>
    /\ out_reveal[1] = 4
    /\ out_reveal[2] = 2
    /\ out_hmac = << 2, << "4" >> >>

\* C3: a step that rejects an input line changes neither the commitment
\* (value, key, digest, number of commits) nor the position, the pool or the
\* two selections; the commitment is still the one printed at commit time.
RejectStep == Len(log') = Len(log) + 1 /\ log'[Len(log')] = "reject"

RejectKeepsCommitment ==
    [][ RejectStep =>
          /\ UNCHANGED << computer_num, key, hmac_value, out_hmac, out_reveal, commits, pc >>
          /\ UNCHANGED << dice, original_dice, available_dice, player_die, computer_die >>
          /\ pc \in PromptPcs =>
                /\ hmac_value' = HMAC(key', Str(computer_num'))
                /\ out_hmac' = hmac_value' ]_vars

TwoRejectsReached ==
    /\ pc = "contrib_player"
    /\ Rejects(log) >= 2
    /\ hmac_value = HMAC(key, Str(computer_num))
    /\ commits = 2

ConstructionErrors == { "ValueError: At least three dice must be provided",
                        "ValueError: Die must have at least one face" }

\* C4: no input line makes a sub-protocol raise an error or abort the game,
\* and no line is accepted as a value outside the valid range: every line
\* that is not a valid value is rejected and the prompt repeated.
InputErrorsContained ==
    /\ \A i \in 1 .. Len(log) : log[i] # "raise"
    /\ pc = "error" => err \in ConstructionErrors
    /\ pc = "first_pick" => player_guess \in { 0, 1 }
    /\ out_result # <<>> => out_result[1] \in 0 .. out_result[4] - 1

\* C5: the result index of a throw is (c + e) mod n, lies in 0 .. n-1, and the
\* score is the face of the thrown die at that index.
ThrowResolution ==
    out_result # <<>> =>
        LET c == out_result[1]
            e == out_result[2]
            r == out_result[3]
            n == out_result[4]
        IN  /\ c \in 0 .. n - 1
            /\ e \in 0 .. n - 1
            /\ e = out_reveal[1]
            /\ r = (c + e) % n
            /\ r \in 0 .. n - 1
            /\ pc # "error"
            /\ pc = "roll_computer" =>
                  n = Len(dice[player_die]) /\ player_score = dice[player_die][r + 1]
            /\ pc \in { "scores", "done" } =>
                  n = Len(dice[computer_die]) /\ computer_score = dice[computer_die][r + 1]

SixFourThreeReached ==
    /\ pc = "roll_computer"
    /\ out_result = << 3, 4, 1, 6 >>
    /\ dice[player_die] = << 2, 2, 4, 4, 9, 9 >>
    /\ player_score = 2

\* C6: the committed value is a bit, and the counterpart chooses first if and
\* only if its accepted guess equals the revealed value; otherwise the
\* computer chooses first.
FirstChooser ==
    /\ pc = "guess" => computer_num \in { 0, 1 }
    /\ pc = "first_pick" =>
          /\ out_reveal[1] \in { 0, 1 }
          /\ player_first <=> (player_guess = out_reveal[1])
          /\ PlayerPicksAt(pc) <=> (player_guess = out_reveal[1])
          /\ ComputerPicksAt(pc) <=> (player_guess # out_reveal[1])
    /\ pc = "first_input" => player_first
    /\ (pc = "second_pick" /\ player_die = None) => ~ player_first

GuessOneBitOneReached ==
    /\ pc = "first_pick"
    /\ out_reveal[1] = 1
    /\ player_guess = 1
    /\ player_first

\* C7: for the die being thrown (length n), for every fixed contribution the
\* map from the committed value to the result index is a bijection onto
\* 0 .. n-1, and for every fixed committed value so is the map from the
\* contribution; the committed value lies in 0 .. n-1.
FairCombination ==
    pc \in { "contrib_player", "contrib_computer" } =>
        LET n == Len(dice[ThrownDie(pc)])
        IN  /\ computer_num \in 0 .. n - 1
            /\ \A c \in 0 .. n - 1 : { throw_result(c, e, n) : e \in 0 .. n - 1 } = 0 .. n - 1
            /\ \A e \in 0 .. n - 1 : { throw_result(c, e, n) : c \in 0 .. n - 1 } = 0 .. n - 1

SixFaceThrowReached ==
    /\ pc = "contrib_computer"
    /\ Len(dice[computer_die]) = 6
    /\ computer_num = 5

Count(lst, d) == Cardinality({ i \in 1 .. Len(lst) : DieEq(lst[i], d) })
InPool(d) == \E i \in 1 .. Len(available_dice) : available_dice[i] = d

PoolPartition ==
    /\ \A d \in Dies : InPool(d) # (d \in { player_die, computer_die })
    /\ player_die # None => player_die # computer_die

\* C10: reset() leaves the pool equal to the dice given at construction, die
\* by die and in the original order, with both selections unset; the original
\* list is never changed by select_die or reset.
ResetRestoresPool ==
    /\ dice # <<>> =>
          /\ dice = dice_values
          /\ original_dice = [ i \in 1 .. Len(dice_values) |-> i ]
    /\ call[1] = "reset" =>
          /\ Len(available_dice) = Len(dice_values)
          /\ \A i \in 1 .. Len(dice_values) : dice[available_dice[i]] = dice_values[i]
          /\ available_dice = original_dice
          /\ player_die = None
          /\ computer_die = None

ResetOfShrunkPoolReached ==
    /\ call[1] = "reset"
    /\ Len(call[2]) = 1
    /\ Len(available_dice) = 3

\* C11: generate_uniform_random(max_value) returns an integer in
\* 0 .. max_value for every max_value >= 0, and raises, returning no value,
\* for every negative max_value.
UniformInRange ==
    call[1] = "generate_uniform_random" =>
        /\ call[2] >= 0 => (call[3] = "return" /\ call[4] \in 0 .. call[2])
        /\ call[2] < 0 => (call[3] = "raise" /\ call[4] = None)

UniformTopValueReached ==
    /\ call[1] = "generate_uniform_random"
    /\ call[2] = 5
    /\ call[3] = "return"
    /\ call[4] = 5

\* C12: construction with fewer than 3 dice fails, and construction with a
\* die without faces fails; the error reaches the caller, no game state is
\* built and no protocol step runs.  With at least 3 dice that all have a
\* face, construction succeeds.
NothingBuilt ==
    /\ dice = <<>>
    /\ original_dice = <<>> /\ available_dice = <<>>
    /\ player_die = None /\ computer_die = None
    /\ out_table = <<>> /\ out_hmac = NoHmac /\ log = <<>>
    /\ commits = 0 /\ reads = 0

HasEmptyDie == \E i \in 1 .. Len(dice_values) : dice_values[i] = <<>>

ConstructionValidation ==
    pc # "new" =>
        /\ Len(dice_values) < 3 =>
              /\ pc = "error"
              /\ err = "ValueError: At least three dice must be provided"
              /\ NothingBuilt
        /\ HasEmptyDie =>
              /\ pc = "error"
              /\ err \in ConstructionErrors
              /\ Len(dice_values) >= 3 => err = "ValueError: Die must have at least one face"
              /\ NothingBuilt
        /\ (Len(dice_values) >= 3 /\ ~ HasEmptyDie) =>
              /\ err \notin ConstructionErrors
              /\ dice = dice_values
              /\ Len(original_dice) = Len(dice_values)

EmptyDieRefusedReached ==
    /\ pc = "error"
    /\ Len(dice_values) = 3
    /\ dice_values[2] = <<>>
    /\ err = "ValueError: Die must have at least one face"

\* C13: for all dice A and B of the set, the pairs in which A's face is
\* higher, the pairs in which B's face is higher and the pairs with equal
\* faces add up to all |A| x |B| pairs, i.e. the two win probabilities and
\* the tie mass add up to 1; ties count for neither side.
Ties(die1, die2) ==
    Cardinality({ p \in (1 .. Len(die1)) \X (1 .. Len(die2)) : die1[p[1]] = die2[p[2]] })

WinTieIdentity ==
    pc = "determine" => \A i \in Dies : \A j \in Dies :
        /\ Total(dice[i], dice[j]) = Len(dice[i]) * Len(dice[j])
        /\ Wins(dice[i], dice[j]) + Wins(dice[j], dice[i]) + Ties(dice[i], dice[j])
              = Total(dice[i], dice[j])
        /\ Wins(dice[i], dice[j]) \in 0 .. Total(dice[i], dice[j])

WinsBothWaysAndTiesReached ==
    /\ pc = "determine"
    /\ dice[1] = << 2, 5 >>
    /\ dice[2] = << 2, 2, 4, 4, 9, 9 >>
    /\ Wins(dice[1], dice[2]) = 4
    /\ Wins(dice[2], dice[1]) = 6
    /\ Ties(dice[1], dice[2]) = 2

\* C14: every diagonal entry of the printed probability table is exactly
\* 0.50, whatever the faces of the die and also when two dice of the set have
\* the same faces; the table is printed before the first commitment.
Half == << "0", ".", "5", "0" >>

DiagonalIsHalf ==
    /\ out_table # <<>> =>
          /\ Len(out_table) = Len(dice)
          /\ \A i \in Dies : Len(out_table[i]) = Len(dice) /\ out_table[i][i] = Half
    /\ commits > 0 => out_table # <<>>

DiagonalNotComputedReached ==
    /\ out_table # <<>>
    /\ dice[1] = << 5 >>
    /\ dice[2] = << 5 >>
    /\ out_table[1][1] = Half
    /\ out_table[1][2] = << "0", ".", "0", "0" >>

\* C15: at game end exactly one outcome is reported: the player wins iff the
\* player's score is strictly higher, the computer wins iff it is strictly
\* lower, and a tie is reported iff the two scores are equal; nothing is
\* reported before the end.
OutcomeByScores ==
    /\ pc = "done" =>
          /\ outcome \in { "win", "lose", "tie" }
          /\ outcome = "win" <=> player_score > computer_score
          /\ outcome = "lose" <=> player_score < computer_score
          /\ outcome = "tie" <=> player_score = computer_score
    /\ pc # "done" => outcome = "none"

TieReportedReached ==
    /\ pc = "done"
    /\ outcome = "tie"
    /\ player_score = 2
    /\ computer_score = 2
    /\ dice[player_die] # dice[computer_die]

\* C16: selection starts only after the first chooser is decided; the
\* designated party picks first from the full pool, the other party picks
\* from the remainder, which is the pool with the first pick removed; every
\* selection shrinks the pool by one, so N - 2 dice are left after both.
Without(lst, d) == SelectSeq(lst, LAMBDA x : x # d)
FirstPicked == IF player_first THEN player_die ELSE computer_die
SecondPicked == IF player_first THEN computer_die ELSE player_die

SelectionOrder ==
    /\ pc \in { "new", "start", "determine", "guess" } =>
          /\ player_die = None /\ computer_die = None
          /\ available_dice = original_dice
    /\ pc \in { "first_pick", "first_input" } =>
          /\ commits = 1 /\ reads = 1
          /\ player_die = None /\ computer_die = None
          /\ available_dice = original_dice
          /\ pc = "first_input" => player_first
    /\ pc \in { "second_pick", "second_input" } =>
          /\ FirstPicked # None /\ SecondPicked = None
          /\ Len(available_dice) = Len(original_dice) - 1
          /\ available_dice = Without(original_dice, FirstPicked)
          /\ pc = "second_input" => ~ player_first
    /\ pc \in { "roll_player", "contrib_player", "roll_computer", "contrib_computer",
                "scores", "done" } =>
          /\ FirstPicked # None /\ SecondPicked # None
          /\ Len(available_dice) = Len(original_dice) - 2
          /\ available_dice = Without(Without(original_dice, FirstPicked), SecondPicked)

\* C17: the throw sub-protocol runs once per party and only after both
\* parties hold a die, the player's throw first; each throw commits to a value
\* in the range of the party's own die, so the player's score is a face of
\* player_die and the computer's score a face of computer_die.
IsFace(d, score) == \E i \in 1 .. Len(dice[d]) : dice[d][i] = score

ThrowsOncePerParty ==
    /\ commits \in 0 .. 3
    /\ commits >= 2 => (player_die # None /\ computer_die # None)
    /\ commits < 2 => (player_score = None /\ computer_score = None)
    /\ pc = "roll_player" => commits = 1
    /\ pc = "contrib_player" =>
          /\ commits = 2
          /\ computer_num \in 0 .. Len(dice[player_die]) - 1
          /\ player_score = None /\ computer_score = None
    /\ pc = "roll_computer" =>
          /\ commits = 2
          /\ player_score # None /\ computer_score = None
    /\ pc = "contrib_computer" =>
          /\ commits = 3
          /\ computer_num \in 0 .. Len(dice[computer_die]) - 1
          /\ player_score # None /\ computer_score = None
    /\ pc \in { "scores", "done" } =>
          /\ commits = 3
          /\ player_score # None /\ computer_score # None
    /\ player_score # None => IsFace(player_die, player_score)
    /\ computer_score # None => IsFace(computer_die, computer_score)

OwnDiceThrownReached ==
    /\ pc = "done"
    /\ commits = 3
    /\ dice[player_die] = << 5 >>
    /\ dice[computer_die] = << 2, 2, 4, 4, 9, 9 >>
    /\ player_score = 5
    /\ computer_score = 9

\* C18: a die of one face is a valid die; in a throw of it the committed
\* value is 0, the only accepted contribution is 0, the result is
\* (0 + 0) mod 1 = 0 and the score is its single face.
SingleFace(d) == d # None /\ Len(dice[d]) = 1

SingleFaceThrow ==
    /\ (Len(dice_values) >= MinDice /\ \A i \in 1 .. Len(dice_values) : Len(dice_values[i]) = 1)
          => err \notin ConstructionErrors
    /\ (pc \in { "contrib_player", "contrib_computer" } /\ SingleFace(ThrownDie(pc))) =>
          /\ computer_num = 0
          /\ ChoicesBy[1]["accept"] # {}
          /\ \A choice \in ChoicesBy[1]["accept"] : IntVal(choice) = 0
    /\ (out_result # <<>> /\ out_result[4] = 1) => out_result = << 0, 0, 0, 1 >>
    /\ (player_score # None /\ SingleFace(player_die)) => player_score = dice[player_die][1]
    /\ (computer_score # None /\ SingleFace(computer_die)) => computer_score = dice[computer_die][1]

SingleFaceThrownReached ==
    /\ pc = "roll_computer"
    /\ dice[player_die] = << 5 >>
    /\ out_result = << 0, 0, 0, 1 >>
    /\ player_score = 5

\* C19: in a game built from at least three non-empty dice no internal
\* failure path is taken: every bound handed to the uniform draw (the pool
\* length - 1, a die length - 1) is non-negative, the pool is never empty
\* when a party picks, and every index into the pool or a die is in range.
InternalErrors == { "ValueError: max_value must be non-negative",
                    "ValueError: No dice available for selection",
                    "IndexError: list index out of range" }

PickPcs == { "first_pick", "first_input", "second_pick", "second_input" }
ThrowPcs == { "roll_player", "contrib_player", "roll_computer", "contrib_computer" }

InternalFailuresUnreachable ==
    /\ err \notin InternalErrors
    /\ pc \in PickPcs => Len(available_dice) - 1 >= 0
    /\ pc \in ThrowPcs => Len(dice[ThrownDie(pc)]) - 1 >= 0
    /\ pc = "guess" => computer_num \in 0 .. 1
    /\ pc \in { "contrib_player", "contrib_computer" } =>
          computer_num \in 0 .. Len(dice[ThrownDie(pc)]) - 1
    /\ player_die # None => \E i \in 1 .. Len(original_dice) : original_dice[i] = player_die
    /\ computer_die # None => \E i \in 1 .. Len(original_dice) : original_dice[i] = computer_die
    /\ out_result # <<>> => out_result[3] \in 0 .. out_result[4] - 1

LastDieAndTopFaceReached ==
    /\ pc = "done"
    /\ Len(original_dice) = MinDice
    /\ Len(available_dice) = 1
    /\ computer_die = original_dice[MinDice]
    /\ out_result # <<>>
    /\ out_result[4] = 6
    /\ out_result[3] = 5

\* C20: a started game that ends reports win, lose or tie after exactly three
\* commitments and four accepted inputs, and a step at an input prompt that
\* accepts nothing leaves the game at the same prompt without a failure.
InputPcs == { "guess", "first_input", "second_input", "contrib_player", "contrib_computer" }
StartedPcs == { "start", "determine", "guess", "first_pick", "first_input", "second_pick",
                "second_input", "roll_player", "contrib_player", "roll_computer",
                "contrib_computer", "scores" }

InvalidInputStaysAtPrompt ==
    [][ /\ (pc \in InputPcs /\ reads' = reads) => (pc' = pc /\ err' = err)
        /\ pc \in StartedPcs => pc' # "error"
        /\ pc' = "done" =>
              /\ commits' = 3
              /\ reads' = 4
              /\ outcome' \in { "win", "lose", "tie" } ]_vars

====
